---- MODULE Spec2Model ----
(***************************************************************************)
(* Model of the request pipeline of UniversalAPIWrapper.                   *)
(*                                                                         *)
(* The repository holds two implementations of the class: the TypeScript   *)
(* one (src/src/app.ts) and the JavaScript one (src/unnamed/part_000).     *)
(* They differ in handleResponse (what is returned), in handleError        *)
(* (normalisation of HTTP errors) and in the constructor.  The variable    *)
(* impl selects the implementation a behaviour runs; every definition that *)
(* depends on it names the branch it models.                               *)
(*                                                                         *)
(* JavaScript values are records [t |-> type, v |-> text]: t is the        *)
(* typeof-like tag and v the JSON text of a structured value or the        *)
(* characters of a string.                                                 *)
(***************************************************************************)
EXTENDS Integers, Sequences, FiniteSets, TLC

-----------------------------------------------------------------------------
(* Bounds of the model *)

\* largest retryAttempts value a behaviour is configured with
MaxRetry == 2

\* largest number of refresh-hook calls within one logical request; the
\* server stops answering 401 to a refreshing instance beyond it
MaxRefresh == 2

\* largest number of keys of a params object whose insertion orders are compared
MaxKeys == 2

-----------------------------------------------------------------------------
(* Program constants *)

\* backoff unit of the retry loop, in milliseconds: setTimeout(resolve, 1000 * attempts)
BackoffUnit == 1000

\* timeout when the configuration gives none: config.timeout || 30000
DefaultTimeout == 30000

\* retryAttempts when the configuration gives none: config.retryAttempts || 3
DefaultRetryAttempts == 3

\* cacheDuration when the configuration gives none: config.cacheDuration || 300000
DefaultCacheDuration == 300000

\* granularity of the model's clock, in milliseconds: one backoff unit
TickMs == BackoffUnit

-----------------------------------------------------------------------------
(* JavaScript values *)

Undefined == [t |-> "undefined", v |-> ""]

JObj(text) == [t |-> "object", v |-> text]

JStr(text) == [t |-> "string", v |-> text]

\* JavaScript truthiness, as used by `||` and `if (x)`
Truthy(x) ==
  CASE x.t = "object" -> TRUE
    [] x.t = "string" -> x.v # ""
    [] x.t = "number" -> x.v \notin {"0", "NaN"}
    [] x.t = "boolean" -> x.v = "true"
    [] OTHER -> FALSE

\* a || b
OrElse(a, b) == IF Truthy(a) THEN a ELSE b

\* the texts JSON.parse accepts, among the texts of the model
JSONTexts == {"{\"a\":1}", "{\"id\":1}", "{}", "0"}

\* JSON.parse(text) for text in JSONTexts
JSONParse(text) == IF text = "0" THEN [t |-> "number", v |-> "0"] ELSE JObj(text)

\* The characters of a string inside a JSON string literal, character by
\* character: " becomes \", \ becomes \\, and the control characters become
\* their two-character escapes (newline \n, tab \t, carriage return \r, form
\* feed \f).  The other control characters, which JSON.stringify writes as
\* \b or \u00XX, cannot occur in a string of the model.
RECURSIVE Escape(_)
Escape(s) ==
  IF s = "" THEN ""
  ELSE LET ch == SubSeq(s, 1, 1)
           escaped == CASE ch = "\"" -> "\\\""
                        [] ch = "\\" -> "\\\\"
                        [] ch = "\n" -> "\\n"
                        [] ch = "\t" -> "\\t"
                        [] ch = "\r" -> "\\r"
                        [] ch = "\f" -> "\\f"
                        [] OTHER -> ch
       IN escaped \o Escape(Tail(s))

\* JSON.stringify(x)
JSONStringify(x) ==
  CASE x.t = "string" -> "\"" \o Escape(x.v) \o "\""
    [] x.t = "undefined" -> "undefined"
    [] OTHER -> x.v

\* the property `message` of a response body: data.message
MessageField(data) ==
  IF data = JObj("{\"message\":\"gone\"}") THEN JStr("gone") ELSE Undefined

-----------------------------------------------------------------------------
(* Inputs of the model *)

\* the callers that may have a logical request in progress
Callers == {"c1", "c2"}

\* the implementations of the class in the repository
Impls == {"ts", "js"}

\* The releases of axios a build can install (the repository pins none):
\* 1.6.7, the release current when the repository's 1.0.0 was published, and
\* 1.7.5, from which on an AxiosError built with a response has a `status`
\* property of its own.
AxiosReleases == {"1.6.7", "1.7.5"}

\* Headers are records [xApiKey, authorization, accept]; "" is an absent header.
NoHeaders == [xApiKey |-> "", authorization |-> "", accept |-> ""]

\* An options object (the third argument of request(), the config argument
\* of the verb helpers) is a record [params, data, headers]; Missing is a
\* property the object does not have.
Missing == [t |-> "missing", v |-> ""]

\* the options object {}
NoOptions == [params |-> Missing, data |-> Missing, headers |-> Missing]

\* a parameter with the default value `= {}`: the default replaces undefined
DefaultEmpty(x) == IF x = Undefined THEN JObj("{}") ELSE x

\* {...base, ...config} for a parameter config with the default `= {}`: the
\* properties config has replace those of base
Spread(base, config) ==
  IF config = Undefined THEN base
  ELSE [k \in DOMAIN base |-> IF config[k] # Missing THEN config[k] ELSE base[k]]

\* The arguments of a call request(method, endpoint, options), as the config
\* {method, url: endpoint, ...options} presents them: a property the options
\* do not have reads undefined, and the headers start empty.
request(method, endpoint, options) ==
  [method |-> method, url |-> endpoint,
   params |-> IF options.params = Missing THEN Undefined ELSE options.params,
   data |-> IF options.data = Missing THEN Undefined ELSE options.data,
   headers |-> IF options.headers = Missing THEN NoHeaders ELSE options.headers]

\* get(endpoint, params): request('GET', endpoint, {params})
get(endpoint, params) ==
  request("GET", endpoint, [NoOptions EXCEPT !.params = DefaultEmpty(params)])

\* post(endpoint, data, config): request('POST', endpoint, {data, ...config})
post(endpoint, data, config) ==
  request("POST", endpoint, Spread([NoOptions EXCEPT !.data = DefaultEmpty(data)], config))

\* put(endpoint, data, config): request('PUT', endpoint, {data, ...config})
put(endpoint, data, config) ==
  request("PUT", endpoint, Spread([NoOptions EXCEPT !.data = DefaultEmpty(data)], config))

\* delete(endpoint, config): request('DELETE', endpoint, config)
delete(endpoint, config) == request("DELETE", endpoint, Spread(NoOptions, config))

\* patch(endpoint, data, config): request('PATCH', endpoint, {data, ...config})
patch(endpoint, data, config) ==
  request("PATCH", endpoint, Spread([NoOptions EXCEPT !.data = DefaultEmpty(data)], config))

\* the request() calls of Spec: get('/posts/1'),
\* request('get', '/posts/1', {params: {}}) and post('/posts', {title: "t"})
Requests ==
  { get("/posts/1", Undefined),
    request("get", "/posts/1", [NoOptions EXCEPT !.params = JObj("{}")]),
    post("/posts", JObj("{\"title\":\"t\"}"), Undefined) }

\* The calls of the other verb helpers: with data, with data left out, with a
\* config that sets params, replaces data or sets a header, and without one.
VerbRequests ==
  { put("/posts/1", JObj("{\"title\":\"t\"}"), Undefined),
    put("/posts/1", Undefined, Undefined),
    put("/posts/1", JObj("{\"title\":\"t\"}"),
        [NoOptions EXCEPT !.params = JObj("{\"a\":1}")]),
    delete("/posts/1", Undefined),
    delete("/posts/1", [NoOptions EXCEPT !.headers = [NoHeaders EXCEPT !.accept = "text/plain"]]),
    patch("/posts/1", JObj("{\"title\":\"t\"}"), Undefined),
    patch("/posts/1", Undefined, [NoOptions EXCEPT !.data = JObj("{\"title\":\"u\"}")]) }

\* the object literal {<field>: text, variables}
GraphQLBody(field, text, variables) ==
  JObj("{\"" \o field \o "\":" \o JSONStringify(JStr(text))
         \o ",\"variables\":" \o variables.v \o "}")

\* queryGraphQL(endpoint, query, variables): the arguments of its request() call
queryGraphQL(endpoint, query, variables) ==
  request("POST", endpoint,
          [NoOptions EXCEPT !.data = GraphQLBody("query", query, DefaultEmpty(variables))])

\* the mutation sent under a field of its own
mutationGraphQL_OwnField(endpoint, mutation, variables) ==
  request("POST", endpoint,
          [NoOptions EXCEPT !.data = GraphQLBody("mutation", mutation, DefaultEmpty(variables))])

\* mutationGraphQL(endpoint, mutation, variables): the arguments of its
\* request() call
mutationGraphQL(endpoint, mutation, variables) ==
  request("POST", endpoint,
          [NoOptions EXCEPT !.data = GraphQLBody("query", mutation, DefaultEmpty(variables))])

\* the request() call of queryGraphQL('/graphql', "query{x}")
GraphQLRequests == { queryGraphQL("/graphql", "query{x}", Undefined) }

\* request() called without a method (a falsy first argument, here ''):
\* request('', '/posts/1', {params: {}}) and request('', '/posts', {data: {title: "t"}})
MethodlessRequests ==
  { request("", "/posts/1", [NoOptions EXCEPT !.params = JObj("{}")]),
    request("", "/posts", [NoOptions EXCEPT !.data = JObj("{\"title\":\"t\"}")]) }

AllRequests == Requests \cup VerbRequests \cup MethodlessRequests \cup GraphQLRequests

\* response.data of a 2xx response, as the transport hands it to the interceptor
SuccessBodies == {JObj("{\"id\":1}"), JStr("{\"a\":1}"), JStr("")}

\* error.response.status of a failed transport call; 0 stands for an error
\* that carries no response (network error, timeout)
NoResponse == 0

ErrStatuses == {401, 404}

\* error.response.data of a failed transport call
ErrBodies == {JObj("{\"message\":\"gone\"}"), JObj("{}")}

\* the tokens the refresh hook may return; the stub returns the first
Tokens == {"new-access-token", "rotated-token"}

\* the cacheDuration values a behaviour is configured with, in milliseconds
CacheDurations == {2000}

-----------------------------------------------------------------------------
(* Pure functions of the class *)

\* String.prototype.toLowerCase on the method names of the model
ToLowerCase(m) ==
  CASE m = "GET" -> "get"
    [] m = "POST" -> "post"
    [] m = "PUT" -> "put"
    [] m = "PATCH" -> "patch"
    [] m = "DELETE" -> "delete"
    [] OTHER -> m

\* axios' default transformRequest: a plain object body is serialised to its
\* JSON text, anything else is sent as it is
TransformRequest(data) == IF data.t = "object" THEN JStr(data.v) ELSE data

\* The config object axios attaches to a response or an error (response.config,
\* error.config) for a call axiosInstance(c): the method is lower-cased and the
\* body is the transformed body; url and params are the caller's.
\* A config without a method gets axios' default, get.
AxiosConfig(c) ==
  [c EXCEPT !.method = IF c.method = "" THEN "get" ELSE ToLowerCase(c.method),
            !.data = TransformRequest(c.data)]

\* getCacheKey(config)
getCacheKey(c) ==
  c.method \o "-" \o c.url \o "-"
    \o JSONStringify(OrElse(c.params, JObj("{}"))) \o "-"
    \o JSONStringify(OrElse(c.data, JObj("{}")))

\* parseResponse(data)
parseResponse(data) ==
  IF data.t = "string"
    THEN IF data.v \in JSONTexts THEN JSONParse(data.v) ELSE data
    ELSE data

\* Buffer.from(text).toString('base64') on the credentials of the model
Base64(text) == IF text = "user:pass" THEN "dXNlcjpwYXNz" ELSE "base64(" \o text \o ")"

\* the Bearer header written after the Basic one
getAuthHeaders_BearerLast(auth, existingHeaders) ==
  LET h1 == IF auth.apiKey # ""
              THEN [existingHeaders EXCEPT !.xApiKey = auth.apiKey]
              ELSE existingHeaders
      h2 == IF auth.basicAuth.set
              THEN [h1 EXCEPT !.authorization =
                      "Basic " \o Base64(auth.basicAuth.username \o ":" \o auth.basicAuth.password)]
              ELSE h1
      h3 == IF auth.bearerToken # ""
              THEN [h2 EXCEPT !.authorization = "Bearer " \o auth.bearerToken]
              ELSE h2
  IN h3

\* getAuthHeaders(existingHeaders) under the credential bundle auth
getAuthHeaders(auth, existingHeaders) ==
  LET h1 == IF auth.apiKey # ""
              THEN [existingHeaders EXCEPT !.xApiKey = auth.apiKey]
              ELSE existingHeaders
      h2 == IF auth.bearerToken # ""
              THEN [h1 EXCEPT !.authorization = "Bearer " \o auth.bearerToken]
              ELSE h1
      h3 == IF auth.basicAuth.set
              THEN [h2 EXCEPT !.authorization =
                      "Basic " \o Base64(auth.basicAuth.username \o ":" \o auth.basicAuth.password)]
              ELSE h2
  IN h3

-----------------------------------------------------------------------------
(* Values that reach the caller *)

\* what request() resolves to: the AxiosResponse object (wrap = "response",
\* body = response.data) or a bare value (wrap = "data")
AsResponse(rawData) == [wrap |-> "response", body |-> rawData]

AsData(value) == [wrap |-> "data", body |-> value]

NoValue == AsData(Undefined)

\* Errors are records [type, seq, status, message, data].  seq identifies the
\* error object: the number of the transport call (or refresh call) of the
\* logical request that raised it; an object built by handleError has seq 0.
NoError == [type |-> "none", seq |-> 0, status |-> NoResponse, message |-> "", data |-> Undefined]

\* the error the transport raises for its n-th call of a logical request
TransportError(n, status, data) ==
  [type |-> "AxiosError", seq |-> n, status |-> status,
   message |-> IF status = NoResponse THEN "Network Error"
               ELSE "Request failed with status code " \o ToString(status),
   data |-> IF status = NoResponse THEN Undefined ELSE data]

\* the error a failing refresh hook raises on its n-th call
RefreshError(n) ==
  [type |-> "RefreshError", seq |-> n, status |-> NoResponse,
   message |-> "refresh failed", data |-> Undefined]

\* error.response is set
HasResponse(error) == error.status # NoResponse

\* handleError: error.response.status === 401 && this.config.auth.refreshToken
IsRefreshCase(auth, error) ==
  HasResponse(error) /\ error.status = 401 /\ auth.refreshToken # ""

\* handleError, part_000 lines 73-77: the normalized error object
Normalized(error) ==
  [type |-> "normalized", seq |-> 0, status |-> error.status,
   message |-> OrElse(MessageField(error.data), JStr(error.message)).v,
   data |-> error.data]

\* handleError normalising errors without a response too
handleErrorThrown_NormalizeAll(im, error) ==
  IF im = "js" THEN Normalized(error) ELSE error

\* what handleError throws when it does not refresh
handleErrorThrown(im, error) ==
  IF HasResponse(error) /\ im = "js" THEN Normalized(error) ELSE error

\* what handleResponse returns to the caller of axiosInstance
handleResponseReturn(im, rawData) ==
  IF im = "ts" THEN AsResponse(rawData) ELSE AsData(parseResponse(rawData))

\* The `status` property of a thrown object itself (not error.response.status).
\* The object handleError of part_000 builds has one.  The AxiosError the
\* transport raises, which app.ts rethrows, has one when it carries a response
\* and axios is of release 1.7.5 or later, whose constructor assigns
\* this.status = response.status; a refresh error has none.
StatusField(release, error) ==
  CASE error.type = "normalized" -> error.status
    [] error.type = "AxiosError" /\ release = "1.7.5" -> error.status
    [] OTHER -> NoResponse

\* the `data` property of a thrown object itself
DataField(error) == IF error.type = "normalized" THEN error.data ELSE Undefined

-----------------------------------------------------------------------------
(* State *)

VARIABLES
  impl,      \* which implementation runs: "ts" (app.ts) or "js" (part_000)
  axios,     \* the release of axios installed
  config,    \* this.config: retryAttempts, cacheEnabled, cacheDuration, auth
  cache,     \* memoryCache: key -> [value, left]; left = milliseconds to expiry
  pc,        \* per caller: position of its request() call
  req,       \* per caller: the arguments of its request() call
  cur,       \* per caller: the config of the axiosInstance call in progress
  attempts,  \* per caller: the local `attempts` of request()
  wleft,     \* per caller: milliseconds left of the backoff setTimeout
  outcome,   \* per caller: how the last request() call settled
  ncalls,    \* per caller: transport calls of the current logical request
  nfail,     \* per caller: failed transport calls of the current logical request
  nrefresh,  \* per caller: refresh-hook calls of the current logical request
  rInAttempt, \* per caller: refresh-hook calls since the current iteration of
             \* the retry loop began
  lastErr,   \* per caller: the error raised by the last failed transport call
  lastBody,  \* per caller: response.data of the last successful transport call
  refreshFailed, \* per caller: a refresh-hook call of the current logical
             \* request has failed
  fresh,     \* per request: milliseconds of cacheDuration left since its last
             \* transport-served success
  expectHit, \* per caller: the call was issued while fresh[req] > 0
  writer,    \* per cache key: what request() returned to the caller whose
             \* response wrote the entry
  ckey,      \* per caller: the local `cacheKey` of request()
  fin,       \* the arguments of the function call under examination
  fout,      \* what that call produced
  ws,        \* the connection opened by connectWebSocket and what its handlers did
  oa         \* per caller: its call of a method of an OpenAIWrapper

confVars == <<impl, axios, config>>

histVars == <<ncalls, nfail, nrefresh, rInAttempt, lastErr, lastBody, refreshFailed, expectHit>>

\* the state of the request pipeline
pipeVars == <<impl, axios, config, cache, pc, req, cur, attempts, wleft, outcome,
              ncalls, nfail, nrefresh, rInAttempt, lastErr, lastBody, refreshFailed,
              fresh, expectHit, writer, ckey>>

\* the state of the calls of the other functions of the class
auxVars == <<fin, fout, ws, oa>>

vars == <<pipeVars, auxVars>>

\* no function call under examination
NoCall == [fn |-> "none"]

\* no connection: connectWebSocket has not been called
NoSocket == [state |-> "none"]

\* no OpenAIWrapper has been constructed
NoOpenAI == [pc |-> "off"]

AuxIdle == fin = NoCall /\ fout = NoCall /\ ws = NoSocket /\ oa = NoOpenAI

NoBasicAuth == [set |-> FALSE, username |-> "", password |-> ""]

\* this.config as the constructor stores it, for a configuration without
\* baseURL and timeout; the arguments are the values stored for
\* retryAttempts, cacheEnabled, cacheDuration and auth
Constructor(retryAttempts, cacheEnabled, cacheDuration, auth) ==
  [baseURL |-> "", timeout |-> DefaultTimeout,
   retryAttempts |-> retryAttempts, cacheEnabled |-> cacheEnabled,
   cacheDuration |-> cacheDuration, auth |-> auth]

\* the config object request() hands to axiosInstance: {method, url, ...options}
CallConfig(r) == [method |-> r.method, url |-> r.url, params |-> r.params,
                  data |-> r.data, headers |-> r.headers]

NoRequest == request("", "", NoOptions)

NoConfig == CallConfig(NoRequest)

\* request(): the method after `if (!method) method = options.data ? "POST" : "GET"`,
\* a line only part_000 has
DefaultMethod(im, method, options) ==
  IF im = "js" /\ method = ""
    THEN (IF Truthy(options.data) THEN "POST" ELSE "GET")
    ELSE method

\* the arguments of request() as its body sees them after that line
EffectiveRequest(im, r) == [r EXCEPT !.method = DefaultMethod(im, r.method, r)]

\* how a request() call settled: kind is "none", "return" or "throw"; from is
\* "cache" or "transport" for a return
Settled(kind, from, value, error) ==
  [kind |-> kind, from |-> from, value |-> value, error |-> error]

NoOutcome == Settled("none", "", NoValue, NoError)

-----------------------------------------------------------------------------
(* The cache store (memory-cache) *)

\* memoryCache.get(key): the value of a live entry, else null
CacheGet(store, key) == IF key \in DOMAIN store THEN store[key].value ELSE Undefined

\* an entry already in the store kept: the first writer wins
CachePut_KeepExisting(store, key, value, time) ==
  [k \in DOMAIN store \cup {key} |->
     IF k \in DOMAIN store THEN store[k] ELSE [value |-> value, left |-> time]]

\* memoryCache.put(key, value, time)
CachePut(store, key, value, time) ==
  [k \in DOMAIN store \cup {key} |->
     IF k = key THEN [value |-> value, left |-> time] ELSE store[k]]

\* the store after ms milliseconds: the expiry timers that are due delete
\* their entries
CacheAge(store, ms) ==
  [k \in {x \in DOMAIN store : store[x].left > ms} |->
     [store[k] EXCEPT !.left = @ - ms]]

\* the lookup done whatever cacheEnabled says
LookupEnabled_Always(cfg) == TRUE

\* request(): this.config.cacheEnabled guards the lookup
LookupEnabled(cfg) == cfg.cacheEnabled

\* request(): `if (cachedData) return cachedData`
IsCacheHit(cfg, store, key) == LookupEnabled(cfg) /\ Truthy(CacheGet(store, key))

\* the write done whatever cacheEnabled says
StoreEnabled_Always(cfg) == TRUE

\* handleResponse(): this.config.cacheEnabled guards the write
StoreEnabled(cfg) == cfg.cacheEnabled

\* the comparison off by one: one attempt too many
RetryExhausted_OffByOne(n, cfg) == n = cfg.retryAttempts + 1

\* the loop giving up after its first failure
RetryExhausted_AfterFirst(n, cfg) == n = 1

\* request(): `attempts === this.config.retryAttempts` in the catch block
RetryExhausted(n, cfg) == n = cfg.retryAttempts

\* the same wait after every failure
BackoffDelay_Constant(n) == BackoffUnit

\* request(): setTimeout(resolve, 1000 * attempts)
BackoffDelay(n) == BackoffUnit * n

\* request(): the loop condition `attempts < this.config.retryAttempts`
LoopContinues(n, cfg) == n < cfg.retryAttempts

\* new Error('Max retry attempts reached')
MaxRetryError ==
  [type |-> "Error", seq |-> 0, status |-> NoResponse,
   message |-> "Max retry attempts reached", data |-> Undefined]

\* request() when the loop condition fails: app.ts throws the error after the
\* loop, part_000 has no statement there and resolves to undefined
LoopExit(im) ==
  IF im = "ts" THEN Settled("throw", "", NoValue, MaxRetryError)
  ELSE Settled("return", "none", NoValue, NoError)

\* A property of the configuration object handed to the constructor: absent,
\* or given with a value.
Absent == [given |-> FALSE, v |-> 0]

Given(value) == [given |-> TRUE, v |-> value]

\* this.config.retryAttempts for a configuration whose retryAttempts property
\* is p.  Both constructors start from `config.retryAttempts || 3`, which is
\* 3 for an absent property and for 0; part_000 then spreads the configuration
\* over the defaults, so a property that is given, 0 included, overwrites it.
StoredRetryAttempts(im, p) ==
  LET orDefault == IF p.given /\ p.v # 0 THEN p.v ELSE DefaultRetryAttempts
  IN IF im = "js" /\ p.given THEN p.v ELSE orDefault

-----------------------------------------------------------------------------
(* Initial states *)

\* the token a configuration may start with; "" is no bearerToken
InitialTokens == {"", "initial-token"}

\* the credential bundles of the behaviours of Spec
Auths ==
  { [apiKey |-> "", bearerToken |-> b, basicAuth |-> NoBasicAuth, refreshToken |-> r] :
      b \in InitialTokens, r \in {"", "refresh-token"} }

\* The module-level store is shared by every wrapper of the process: it is
\* empty, or holds an entry another wrapper's handleResponse has put.
ForeignValue == JObj("{\"id\":2}")

InitialStores(duration) ==
  { <<>>,
    CachePut(<<>>, "get-/posts/1-{}-{}", ForeignValue, duration) }

\* no request() call has been made: the callers in `active` may make one
PipeIdle(active) ==
  /\ pc = [c \in Callers |-> IF c \in active THEN "idle" ELSE "off"]
  /\ req = [c \in Callers |-> NoRequest]
  /\ cur = [c \in Callers |-> NoConfig]
  /\ attempts = [c \in Callers |-> 0]
  /\ wleft = [c \in Callers |-> 0]
  /\ outcome = [c \in Callers |-> NoOutcome]
  /\ ncalls = [c \in Callers |-> 0]
  /\ nfail = [c \in Callers |-> 0]
  /\ nrefresh = [c \in Callers |-> 0]
  /\ rInAttempt = [c \in Callers |-> 0]
  /\ lastErr = [c \in Callers |-> NoError]
  /\ lastBody = [c \in Callers |-> Undefined]
  /\ refreshFailed = [c \in Callers |-> FALSE]
  /\ fresh = [r \in AllRequests |-> 0]
  /\ expectHit = [c \in Callers |-> FALSE]
  /\ writer = <<>>
  /\ ckey = [c \in Callers |-> ""]

PipeInit(active) ==
  /\ impl \in Impls
  /\ axios \in AxiosReleases
  /\ config \in { Constructor(n, ce, cd, a) :
                    n \in 1..MaxRetry, ce \in BOOLEAN, cd \in CacheDurations, a \in Auths }
  /\ cache \in InitialStores(config.cacheDuration)
  /\ PipeIdle(active)

\* a wrapper on which no request() call is made
PipeQuiet ==
  /\ PipeInit({})
  /\ impl = "ts"
  /\ axios = "1.7.5"
  /\ config = Constructor(1, FALSE, 2000,
       [apiKey |-> "", bearerToken |-> "", basicAuth |-> NoBasicAuth, refreshToken |-> ""])
  /\ cache = <<>>

\* one caller issuing requests one after the other
Init == PipeInit({"c1"}) /\ AuxIdle

-----------------------------------------------------------------------------
(* Actions *)

\* request(method, endpoint, options) up to its first await: the cache lookup,
\* and on a miss the entry into the retry loop
CallBody(c, r) ==
  /\ pc[c] \in {"idle", "done"}
  /\ LET key == getCacheKey(CallConfig(EffectiveRequest(impl, r)))
     IN /\ ckey' = [ckey EXCEPT ![c] = key]
        /\ IF IsCacheHit(config, cache, key)
             THEN /\ pc' = [pc EXCEPT ![c] = "done"]
                  /\ outcome' = [outcome EXCEPT ![c] =
                       Settled("return", "cache", AsData(CacheGet(cache, key)), NoError)]
                  /\ cur' = [cur EXCEPT ![c] = NoConfig]
             ELSE IF LoopContinues(0, config)
               THEN /\ pc' = [pc EXCEPT ![c] = "send"]
                    /\ outcome' = [outcome EXCEPT ![c] = NoOutcome]
                    /\ cur' = [cur EXCEPT ![c] = CallConfig(EffectiveRequest(impl, r))]
               ELSE /\ pc' = [pc EXCEPT ![c] = "done"]
                    /\ outcome' = [outcome EXCEPT ![c] = LoopExit(impl)]
                    /\ cur' = [cur EXCEPT ![c] = NoConfig]
  /\ req' = [req EXCEPT ![c] = r]
  /\ attempts' = [attempts EXCEPT ![c] = 0]
  /\ wleft' = [wleft EXCEPT ![c] = 0]
  /\ ncalls' = [ncalls EXCEPT ![c] = 0]
  /\ nfail' = [nfail EXCEPT ![c] = 0]
  /\ nrefresh' = [nrefresh EXCEPT ![c] = 0]
  /\ rInAttempt' = [rInAttempt EXCEPT ![c] = 0]
  /\ lastErr' = [lastErr EXCEPT ![c] = NoError]
  /\ lastBody' = [lastBody EXCEPT ![c] = Undefined]
  /\ refreshFailed' = [refreshFailed EXCEPT ![c] = FALSE]
  /\ expectHit' = [expectHit EXCEPT ![c] = config.cacheEnabled /\ fresh[r] > 0]
  /\ UNCHANGED <<confVars, cache, fresh, writer>>

\* a request() call made by the user
Call(c, r) == CallBody(c, r) /\ UNCHANGED auxVars

\* One call axiosInstance(config) up to the transport: the request interceptor
\* sets the headers, axios normalises the config and the transport is invoked.
Send(c) ==
  /\ pc[c] = "send"
  /\ cur' = [cur EXCEPT ![c] =
       AxiosConfig([cur[c] EXCEPT !.headers = getAuthHeaders(config.auth, @)])]
  /\ ncalls' = [ncalls EXCEPT ![c] = @ + 1]
  /\ pc' = [pc EXCEPT ![c] = "inflight"]
  /\ UNCHANGED <<confVars, cache, req, attempts, wleft, outcome, nfail, nrefresh,
                 rInAttempt, lastErr, lastBody, refreshFailed, fresh, expectHit, writer>>
  /\ UNCHANGED <<ckey, auxVars>>

\* A caller is between the response interceptor and the resumption of its
\* request() call.  The promise chain between the two is made of microtasks:
\* no timer fires and no transport or socket event is dispatched until it has
\* drained, while code scheduled by microtasks (another request() call) runs.
Draining == \E c \in Callers : pc[c] = "resolved"

\* The transport answers 2xx with response.data = body and the response
\* interceptor runs: handleResponse parses the body and, with cacheEnabled,
\* puts it into the store.  The request() call that awaits the response has
\* not resumed yet.
RespondOK(c, body) ==
  /\ pc[c] = "inflight"
  /\ ~Draining
  /\ LET key == getCacheKey(cur[c])
         returned == handleResponseReturn(impl, body)
     IN /\ cache' = IF StoreEnabled(config)
                      THEN CachePut(cache, key, parseResponse(body), config.cacheDuration)
                      ELSE cache
        /\ writer' = IF StoreEnabled(config)
                       THEN [k \in DOMAIN writer \cup {key} |->
                               IF k = key THEN returned ELSE writer[k]]
                       ELSE writer
  /\ pc' = [pc EXCEPT ![c] = "resolved"]
  /\ lastBody' = [lastBody EXCEPT ![c] = body]
  /\ fresh' = IF config.cacheEnabled
                THEN [fresh EXCEPT ![req[c]] = config.cacheDuration]
                ELSE fresh
  /\ UNCHANGED <<confVars, req, cur, attempts, wleft, outcome, ncalls, nfail, nrefresh,
                 rInAttempt, lastErr, refreshFailed, expectHit>>
  /\ UNCHANGED <<ckey, auxVars>>

\* request() resumes after `await this.axiosInstance(config)` and returns what
\* the interceptor chain resolved to.
Return(c) ==
  /\ pc[c] = "resolved"
  /\ outcome' = [outcome EXCEPT ![c] =
       Settled("return", "transport", handleResponseReturn(impl, lastBody[c]), NoError)]
  /\ pc' = [pc EXCEPT ![c] = "done"]
  /\ UNCHANGED <<confVars, cache, req, cur, attempts, wleft, histVars, fresh, writer>>
  /\ UNCHANGED <<ckey, auxVars>>

\* The catch block of request() for the error `thrown`
Catch(c, thrown) ==
  LET n == attempts[c] + 1
  IN /\ attempts' = [attempts EXCEPT ![c] = n]
     /\ IF RetryExhausted(n, config)
          THEN /\ pc' = [pc EXCEPT ![c] = "done"]
               /\ outcome' = [outcome EXCEPT ![c] = Settled("throw", "", NoValue, thrown)]
               /\ wleft' = wleft
          ELSE /\ pc' = [pc EXCEPT ![c] = "wait"]
               /\ outcome' = outcome
               /\ wleft' = [wleft EXCEPT ![c] = BackoffDelay(n)]

\* The transport fails: with an HTTP response of the given status and body, or
\* (status = NoResponse) without one.  handleError either starts a refresh or
\* throws into the catch block of request().
RespondFail(c, status, data) ==
  /\ pc[c] = "inflight"
  /\ ~Draining
  /\ LET error == TransportError(ncalls[c], status, data)
     IN /\ lastErr' = [lastErr EXCEPT ![c] = error]
        /\ nfail' = [nfail EXCEPT ![c] = @ + 1]
        /\ IF IsRefreshCase(config.auth, error)
             THEN /\ nrefresh[c] < MaxRefresh
                  /\ nrefresh' = [nrefresh EXCEPT ![c] = @ + 1]
                  /\ rInAttempt' = [rInAttempt EXCEPT ![c] = @ + 1]
                  /\ pc' = [pc EXCEPT ![c] = "refreshing"]
                  /\ UNCHANGED <<attempts, wleft, outcome>>
             ELSE /\ Catch(c, handleErrorThrown(impl, error))
                  /\ UNCHANGED <<nrefresh, rInAttempt>>
  /\ UNCHANGED <<confVars, cache, req, cur, ncalls, lastBody, refreshFailed,
                 fresh, expectHit, writer>>
  /\ UNCHANGED <<ckey, auxVars>>

\* the new token written to the failed request only, not to this.config
RefreshOK_TokenNotStored(c, token) ==
  /\ pc[c] = "refreshing"
  /\ cur' = [cur EXCEPT ![c].headers.authorization = "Bearer " \o token]
  /\ pc' = [pc EXCEPT ![c] = "send"]
  /\ UNCHANGED <<confVars, cache, req, attempts, wleft, outcome, histVars, fresh, writer>>
  /\ UNCHANGED <<ckey, auxVars>>

\* a token already refreshed kept: the first refresh wins
RefreshOK_FirstWins(c, token) ==
  /\ pc[c] = "refreshing"
  /\ config' = IF config.auth.bearerToken \in Tokens
                 THEN config
                 ELSE [config EXCEPT !.auth.bearerToken = token]
  /\ cur' = [cur EXCEPT ![c].headers.authorization = "Bearer " \o token]
  /\ pc' = [pc EXCEPT ![c] = "send"]
  /\ UNCHANGED <<impl, axios, cache, req, attempts, wleft, outcome, histVars, fresh, writer>>
  /\ UNCHANGED <<ckey, auxVars>>

\* the refresh charged to the retry budget
RefreshOK_CountsAttempt(c, token) ==
  /\ pc[c] = "refreshing"
  /\ config' = [config EXCEPT !.auth.bearerToken = token]
  /\ cur' = [cur EXCEPT ![c].headers.authorization = "Bearer " \o token]
  /\ pc' = [pc EXCEPT ![c] = "send"]
  /\ attempts' = [attempts EXCEPT ![c] = @ + 1]
  /\ UNCHANGED <<impl, axios, cache, req, wleft, outcome, histVars, fresh, writer>>
  /\ UNCHANGED <<ckey, auxVars>>

\* refreshTokenAndRetry after getNewAccessToken() returned token: the token is
\* stored, the failed request's Authorization header is rewritten and the
\* request is resubmitted through axiosInstance.
RefreshOK(c, token) ==
  /\ pc[c] = "refreshing"
  /\ config' = [config EXCEPT !.auth.bearerToken = token]
  /\ cur' = [cur EXCEPT ![c].headers.authorization = "Bearer " \o token]
  /\ pc' = [pc EXCEPT ![c] = "send"]
  /\ UNCHANGED <<impl, axios, cache, req, attempts, wleft, outcome, histVars, fresh, writer>>
  /\ UNCHANGED <<ckey, auxVars>>

\* the stale token dropped from this.config when the refresh fails
RefreshFail_DropsToken(c) ==
  /\ pc[c] = "refreshing"
  /\ refreshFailed' = [refreshFailed EXCEPT ![c] = TRUE]
  /\ config' = [config EXCEPT !.auth.bearerToken = ""]
  /\ Catch(c, RefreshError(nrefresh[c]))
  /\ UNCHANGED <<impl, axios, cache, req, cur, ncalls, nfail, nrefresh, rInAttempt,
                 lastErr, lastBody, fresh, expectHit, writer>>
  /\ UNCHANGED <<ckey, auxVars>>

\* getNewAccessToken() throws: the rejection leaves refreshTokenAndRetry and
\* handleError and reaches the catch block of request().
RefreshFail(c) ==
  /\ pc[c] = "refreshing"
  /\ refreshFailed' = [refreshFailed EXCEPT ![c] = TRUE]
  /\ Catch(c, RefreshError(nrefresh[c]))
  /\ UNCHANGED <<confVars, cache, req, cur, ncalls, nfail, nrefresh, rInAttempt,
                 lastErr, lastBody, fresh, expectHit, writer>>
  /\ UNCHANGED <<ckey, auxVars>>

\* The backoff timer has fired: the loop of request() starts its next attempt.
BackoffDone(c) ==
  /\ pc[c] = "wait"
  /\ wleft[c] = 0
  /\ ~Draining
  /\ IF LoopContinues(attempts[c], config)
       THEN /\ pc' = [pc EXCEPT ![c] = "send"]
            /\ cur' = [cur EXCEPT ![c] = CallConfig(EffectiveRequest(impl, req[c]))]
            /\ outcome' = outcome
       ELSE /\ pc' = [pc EXCEPT ![c] = "done"]
            /\ cur' = cur
            /\ outcome' = [outcome EXCEPT ![c] = LoopExit(impl)]
  /\ rInAttempt' = [rInAttempt EXCEPT ![c] = 0]
  /\ UNCHANGED <<confVars, cache, req, attempts, wleft, ncalls, nfail,
                 nrefresh, lastErr, lastBody, refreshFailed, expectHit, fresh, writer>>
  /\ UNCHANGED <<ckey, auxVars>>

\* TickMs milliseconds pass: timers run down and due cache entries are deleted.
Tick ==
  /\ ~Draining
  /\ wleft' = [c \in Callers |-> IF wleft[c] > TickMs THEN wleft[c] - TickMs ELSE 0]
  /\ cache' = CacheAge(cache, TickMs)
  /\ fresh' = [r \in AllRequests |-> IF fresh[r] > TickMs THEN fresh[r] - TickMs ELSE 0]
  /\ writer' = [k \in DOMAIN writer \cap DOMAIN CacheAge(cache, TickMs) |-> writer[k]]
  /\ UNCHANGED <<confVars, pc, req, cur, attempts, outcome, histVars>>
  /\ UNCHANGED <<ckey, auxVars>>

Next ==
  \/ \E c \in Callers, r \in Requests : Call(c, r)
  \/ \E c \in Callers : Send(c)
  \/ \E c \in Callers, body \in SuccessBodies : RespondOK(c, body)
  \/ \E c \in Callers : Return(c)
  \/ \E c \in Callers, status \in ErrStatuses, data \in ErrBodies : RespondFail(c, status, data)
  \/ \E c \in Callers : RespondFail(c, NoResponse, Undefined)
  \/ \E c \in Callers, token \in Tokens : RefreshOK(c, token)
  \/ \E c \in Callers : RefreshFail(c)
  \/ \E c \in Callers : BackoffDone(c)
  \/ Tick

Spec == Init /\ [][Next]_vars

\* the same pipeline, every request() call made without a method
NextMethod ==
  \/ \E c \in Callers, r \in MethodlessRequests : Call(c, r)
  \/ \E c \in Callers : Send(c)
  \/ \E c \in Callers, body \in SuccessBodies : RespondOK(c, body)
  \/ \E c \in Callers : Return(c)
  \/ \E c \in Callers, status \in ErrStatuses, data \in ErrBodies : RespondFail(c, status, data)
  \/ \E c \in Callers : RespondFail(c, NoResponse, Undefined)
  \/ \E c \in Callers, token \in Tokens : RefreshOK(c, token)
  \/ \E c \in Callers : RefreshFail(c)
  \/ \E c \in Callers : BackoffDone(c)
  \/ Tick

SpecMethod == Init /\ [][NextMethod]_vars

-----------------------------------------------------------------------------
(* The retry loop on every retryAttempts value *)

\* the retryAttempts property of the configurations: absent, or one of the
\* values -1, 0, 1, 2
GivenRetryAttempts == {Absent} \cup { Given(n) : n \in {-1, 0, 1, 2} }

\* a wrapper without cache and without refreshToken
InitRetry ==
  /\ impl \in Impls
  /\ axios \in AxiosReleases
  /\ config \in { Constructor(StoredRetryAttempts(impl, g), FALSE, cd,
                     [apiKey |-> "", bearerToken |-> b, basicAuth |-> NoBasicAuth,
                      refreshToken |-> ""]) :
                   g \in GivenRetryAttempts, cd \in CacheDurations, b \in InitialTokens }
  /\ cache = <<>>
  /\ PipeIdle({"c1"})
  /\ AuxIdle

NextRetry ==
  \/ \E c \in Callers, r \in Requests \cup VerbRequests : Call(c, r)
  \/ \E c \in Callers : Send(c)
  \/ \E c \in Callers, body \in SuccessBodies : RespondOK(c, body)
  \/ \E c \in Callers : Return(c)
  \/ \E c \in Callers, status \in ErrStatuses, data \in ErrBodies : RespondFail(c, status, data)
  \/ \E c \in Callers : RespondFail(c, NoResponse, Undefined)
  \/ \E c \in Callers : BackoffDone(c)
  \/ Tick

SpecRetry == InitRetry /\ [][NextRetry]_vars

-----------------------------------------------------------------------------
(* Two callers issuing the same request on one wrapper *)

\* the request both callers make: request('get', '/posts/1', {params: {}})
SameRequest == { r \in Requests : r.method = "get" }

\* a wrapper with cacheEnabled, a cold cache and retryAttempts = 1
InitSame ==
  /\ impl \in Impls
  /\ axios \in AxiosReleases
  /\ config \in { Constructor(1, TRUE, cd,
                     [apiKey |-> "", bearerToken |-> b, basicAuth |-> NoBasicAuth,
                      refreshToken |-> ""]) :
                   cd \in CacheDurations, b \in InitialTokens }
  /\ cache = <<>>
  /\ PipeIdle(Callers)
  /\ AuxIdle

NextSame ==
  \/ \E c \in Callers, r \in SameRequest : Call(c, r)
  \/ \E c \in Callers : Send(c)
  \/ \E c \in Callers, body \in SuccessBodies : RespondOK(c, body)
  \/ \E c \in Callers : Return(c)
  \/ \E c \in Callers, status \in ErrStatuses, data \in ErrBodies : RespondFail(c, status, data)
  \/ \E c \in Callers : RespondFail(c, NoResponse, Undefined)
  \/ Tick

SpecSame == InitSame /\ [][NextSame]_vars

-----------------------------------------------------------------------------
(* Two callers on a wrapper with a refreshToken *)

\* a wrapper with a refreshToken, without cache, retryAttempts = 1
InitRace ==
  /\ impl \in Impls
  /\ axios \in AxiosReleases
  /\ config \in { Constructor(1, FALSE, cd,
                     [apiKey |-> "", bearerToken |-> b, basicAuth |-> NoBasicAuth,
                      refreshToken |-> "refresh-token"]) :
                   cd \in CacheDurations, b \in InitialTokens }
  /\ cache = <<>>
  /\ PipeIdle(Callers)
  /\ AuxIdle

NextRace ==
  \/ \E c \in Callers, r \in SameRequest : Call(c, r)
  \/ \E c \in Callers : Send(c)
  \/ \E c \in Callers, body \in SuccessBodies : RespondOK(c, body)
  \/ \E c \in Callers : Return(c)
  \/ \E c \in Callers, status \in ErrStatuses, data \in ErrBodies : RespondFail(c, status, data)
  \/ \E c \in Callers : RespondFail(c, NoResponse, Undefined)
  \/ \E c \in Callers, token \in Tokens : RefreshOK(c, token)
  \/ \E c \in Callers : RefreshFail(c)

SpecRace == InitRace /\ [][NextRace]_vars

-----------------------------------------------------------------------------
(* Object literals *)

\* An object literal is the sequence of its <<key, JSON text of the value>>
\* entries in insertion order; its keys are not integer-like.
ObjectEntries == {<<"a", "1">>, <<"b", "2">>, <<"c", "3">>}

\* the entries of JSON.stringify(object), which walks the keys in insertion order
RECURSIVE EntriesText(_)
EntriesText(entries) ==
  IF entries = <<>> THEN ""
  ELSE "\"" \o entries[1][1] \o "\":" \o entries[1][2]
         \o (IF Len(entries) > 1 THEN "," \o EntriesText(Tail(entries)) ELSE "")

\* the object with the given entries, as a value of the model
ObjectOf(entries) == JObj("{" \o EntriesText(entries) \o "}")

\* the objects of at most n keys, each in every insertion order
ObjectsUpTo(n) ==
  UNION { { e \in [1..k -> ObjectEntries] : \A i, j \in 1..k : i # j => e[i][1] # e[j][1] } :
            k \in 0..n }

-----------------------------------------------------------------------------
(* The GraphQL facade *)

\* the facade calls examined, the multi-line query of the README among the
\* documents; variables Undefined is the argument left out
GraphQLInputs ==
  { [fn |-> f, endpoint |-> e, text |-> t, variables |-> v] :
      f \in {"queryGraphQL", "mutationGraphQL"},
      e \in {"/graphql", "/api/graphql"},
      t \in {"query{x}", "mutation{addX}",
              "\n    query {\n      user(id: \"1\") {\n        name\n        email\n      }\n    }\n  "},
      v \in {Undefined} \cup { ObjectOf(o) : o \in ObjectsUpTo(1) } }

\* a wrapper without cache and without refreshToken, on which one facade call
\* is made
InitGraphQL ==
  /\ PipeInit({"c1"})
  /\ ~config.cacheEnabled
  /\ config.auth.refreshToken = ""
  /\ cache = <<>>
  /\ fin \in GraphQLInputs
  /\ fout = NoCall
  /\ ws = NoSocket
  /\ oa = NoOpenAI

\* queryGraphQL or mutationGraphQL up to the first await of the request()
\* call it makes
GraphQLCall(c) ==
  /\ fin.fn \in {"queryGraphQL", "mutationGraphQL"}
  /\ fout = NoCall
  /\ CallBody(c, IF fin.fn = "queryGraphQL"
                   THEN queryGraphQL(fin.endpoint, fin.text, fin.variables)
                   ELSE mutationGraphQL(fin.endpoint, fin.text, fin.variables))
  /\ fout' = [fn |-> fin.fn, requests |-> 1]
  /\ UNCHANGED <<fin, ws, oa>>

NextGraphQL ==
  \/ \E c \in Callers : GraphQLCall(c)
  \/ \E c \in Callers : Send(c)
  \/ \E c \in Callers, body \in SuccessBodies : RespondOK(c, body)
  \/ \E c \in Callers : Return(c)
  \/ \E c \in Callers, status \in ErrStatuses, data \in ErrBodies : RespondFail(c, status, data)
  \/ \E c \in Callers : RespondFail(c, NoResponse, Undefined)
  \/ \E c \in Callers : BackoffDone(c)
  \/ Tick

SpecGraphQL == InitGraphQL /\ [][NextGraphQL]_vars

-----------------------------------------------------------------------------
(* getCacheKey on objects built in different key orders *)

\* what an object holds, whatever the order it was built in
Content(entries) == { entries[i] : i \in 1..Len(entries) }

\* the axios-style config of a request with the given params and body
KeyConfig(method, url, params, data) ==
  [method |-> method, url |-> url, params |-> ObjectOf(params), data |-> ObjectOf(data)]

\* the pairs of requests whose keys are compared: same method and endpoint,
\* params and body of the same content
KeyInputs ==
  { [fn |-> "getCacheKey", method |-> m, url |-> "/posts",
     paramsA |-> pa, paramsB |-> pb, dataA |-> da, dataB |-> db] :
      m \in {"GET", "POST"},
      pa \in ObjectsUpTo(MaxKeys), pb \in ObjectsUpTo(MaxKeys),
      da \in ObjectsUpTo(1), db \in ObjectsUpTo(1) }

InitKey ==
  /\ PipeQuiet
  /\ fin \in { i \in KeyInputs : /\ Content(i.paramsA) = Content(i.paramsB)
                                  /\ Content(i.dataA) = Content(i.dataB) }
  /\ fout = NoCall
  /\ ws = NoSocket
  /\ oa = NoOpenAI

\* getCacheKey is applied to both requests
KeyOf ==
  /\ fin.fn = "getCacheKey"
  /\ fout.fn = "none"
  /\ fout' = [fn |-> "getCacheKey",
              a |-> getCacheKey(KeyConfig(fin.method, fin.url, fin.paramsA, fin.dataA)),
              b |-> getCacheKey(KeyConfig(fin.method, fin.url, fin.paramsB, fin.dataB))]
  /\ UNCHANGED <<pipeVars, fin, ws, oa>>

SpecKey == InitKey /\ [][KeyOf]_vars

-----------------------------------------------------------------------------
(* getAuthHeaders on every credential bundle *)


\* the credential bundles: each of apiKey, bearerToken and basicAuth set or not
AllAuths ==
  { [apiKey |-> k, bearerToken |-> b, basicAuth |-> ba, refreshToken |-> r] :
      k \in {"", "key-1"}, b \in InitialTokens, ba \in {NoBasicAuth, [set |-> TRUE, username |-> "user", password |-> "pass"]},
      r \in {"", "refresh-token"} }

\* the headers a caller may pass in
ExistingHeaders ==
  { [xApiKey |-> k, authorization |-> a, accept |-> ac] :
      k \in {"", "old-key"}, a \in {"", "Bearer stale", "Digest x"},
      ac \in {"", "application/json"} }

\* the caller's header object after getAuthHeaders(existingHeaders): the
\* function writes into the copy `{ ...existingHeaders }`, never into it
ArgumentAfter(auth, existingHeaders) == existingHeaders

InitAuth ==
  /\ PipeQuiet
  /\ fin \in { [fn |-> "getAuthHeaders", auth |-> a, existing |-> e] :
                 a \in { x \in AllAuths : x.refreshToken = "" }, e \in ExistingHeaders }
  /\ fout = NoCall
  /\ ws = NoSocket
  /\ oa = NoOpenAI

\* getAuthHeaders is applied
AuthHeadersOf ==
  /\ fin.fn = "getAuthHeaders"
  /\ fout.fn = "none"
  /\ fout' = [fn |-> "getAuthHeaders",
              headers |-> getAuthHeaders(fin.auth, fin.existing),
              argument |-> ArgumentAfter(fin.auth, fin.existing)]
  /\ UNCHANGED <<pipeVars, fin, ws, oa>>

SpecAuth == InitAuth /\ [][AuthHeadersOf]_vars

-----------------------------------------------------------------------------
(* connectWebSocket *)

\* the message events one connection receives in the model
MaxFrames == 2

\* a Node Buffer holding the bytes of text
JBuf(text) == [t |-> "buffer", v |-> text]

\* the texts of the frames a server sends
FrameTexts == {"{\"a\":1}", "hello"}

\* The releases of the ws package differ in what the 'message' event hands to
\* its listener for a text frame: a string up to 7.x, a Buffer from 8.0 on.
\* The repository pins no release.
WsReleases == {"ws7", "ws8"}

\* the first argument of the 'message' listener for a text frame
MessageData(release, text) == IF release = "ws8" THEN JBuf(text) ELSE JStr(text)

WsInputs ==
  { [fn |-> "connectWebSocket", url |-> u, onMessage |-> om] :
      u \in {"wss://ws.example.com", "wss://echo.websocket.org"}, om \in BOOLEAN }

InitWs ==
  /\ PipeQuiet
  /\ fin \in WsInputs
  /\ fout = NoCall
  /\ ws \in { [state |-> "none", release |-> r] : r \in WsReleases }
  /\ oa = NoOpenAI

\* connectWebSocket(url, options): the socket is created and the four
\* listeners are registered
connectWebSocket ==
  /\ fin.fn = "connectWebSocket"
  /\ ws.state = "none"
  /\ ws' = [state |-> "connecting", release |-> ws.release, url |-> fin.url,
            onMessage |-> fin.onMessage, events |-> <<>>, delivered |-> <<>>,
            errors |-> 0]
  /\ fout' = [fn |-> "connectWebSocket", handle |-> fin.url]
  /\ UNCHANGED <<pipeVars, fin, oa>>

\* the 'open' event
WsOpen ==
  /\ ws.state = "connecting"
  /\ ~Draining
  /\ ws' = [ws EXCEPT !.state = "open"]
  /\ UNCHANGED <<pipeVars, fin, fout, oa>>

\* the 'message' event of a text frame: the listener calls
\* options.onMessage?.(this.parseResponse(data))
WsMessage(text) ==
  /\ ws.state = "open"
  /\ ~Draining
  /\ Len(ws.events) < MaxFrames
  /\ LET data == MessageData(ws.release, text)
     IN ws' = [ws EXCEPT !.events = Append(@, [text |-> text, data |-> data]),
                         !.delivered = IF ws.onMessage
                                         THEN Append(@, parseResponse(data))
                                         ELSE @]
  /\ UNCHANGED <<pipeVars, fin, fout, oa>>

\* the wrapper opening the connection again on an error
WsError_Reconnects ==
  /\ ws.state \in {"connecting", "open"}
  /\ ws.errors = 0
  /\ ~Draining
  /\ ws' = [ws EXCEPT !.errors = 1, !.state = "connecting"]
  /\ UNCHANGED <<pipeVars, fin, fout, oa>>

\* The 'error' event: options.onError?.(error).  The ws package emits it for a
\* failed handshake and for an invalid frame, and has set the socket's
\* readyState to CLOSING before the listener runs; the listener itself calls
\* nothing on the socket.
WsError ==
  /\ ws.state \in {"connecting", "open"}
  /\ ws.errors = 0
  /\ ~Draining
  /\ ws' = [ws EXCEPT !.errors = 1, !.state = "closing"]
  /\ UNCHANGED <<pipeVars, fin, fout, oa>>

\* the 'close' event: options.onClose?.()
WsClose ==
  /\ ws.state \in {"connecting", "open", "closing"}
  /\ ~Draining
  /\ ws' = [ws EXCEPT !.state = "closed"]
  /\ UNCHANGED <<pipeVars, fin, fout, oa>>

NextWs ==
  \/ connectWebSocket
  \/ WsOpen
  \/ \E text \in FrameTexts : WsMessage(text)
  \/ WsError
  \/ WsClose

SpecWs == InitWs /\ [][NextWs]_vars

-----------------------------------------------------------------------------
(* OpenAIWrapper *)

\* the params of the calls examined
ChatParams == {JObj("{\"messages\":[],\"model\":\"gpt-3.5-turbo\"}"),
               JObj("{\"messages\":[],\"model\":\"gpt-4\",\"stream\":true}")}

ImageParams == {JObj("{\"prompt\":\"A test image\",\"n\":1}")}

\* the params of the transcribe() and createSpeech() calls examined
AudioParams ==
  [transcription |-> {JObj("{\"file\":\"audio.mp3\",\"model\":\"whisper-1\"}")},
   speech |-> {JObj("{\"model\":\"tts-1\",\"voice\":\"alloy\",\"input\":\"Hi\"}")}]

\* the texts, instructions, lengths and languages handed to analyze(),
\* summarize() and translate(); 0 stands for an absent maxLength
AnalysisInputs ==
  [texts |-> {"Some \"quoted\" text"}, instructions |-> {"List the names:"},
   maxLengths |-> {0, 50}, languages |-> {"French"}]

\* a completion whose first choice carries a message
Completion == JObj("{\"choices\":[{\"message\":{\"content\":\"Test response\"}}]}")

\* what the client resolves to: two completions, an image list, an object
\* without `choices` (such as the stream of a streaming completion) and a
\* fetch Response object whose body is the bytes "audio"
ClientResponses ==
  {Completion, JObj("{\"choices\":[]}"), JObj("{\"data\":[]}"), JObj("{}"),
   [t |-> "response", v |-> "audio"]}

\* 'choices' in response
HasChoices(response) == response \in {Completion, JObj("{\"choices\":[]}")}

\* response.choices[0]?.message?.content || ''
ContentOf(response) ==
  IF response = Completion THEN JStr("Test response") ELSE JStr("")

\* new Error(message)
JError(message) == [type |-> "Error", message |-> message]

\* what the client rejects with
ClientErrors == {JError("API Error"), JError("Rate limit exceeded")}

InvalidFormat == JError("Invalid response format from OpenAI chat completion")

\* this.cacheEnabled inside OpenAIWrapper: the constructor hands the flag to
\* super(), which keeps it in this.config; no property cacheEnabled is ever
\* assigned on the instance.
ThisCacheEnabled(cfg) == Undefined

\* analyze(text, instructions): the params of its chat() call
analyze(text, instructions) ==
  JObj("{\"messages\":[{\"role\":\"system\",\"content\":"
         \o JSONStringify(JStr(instructions))
         \o "},{\"role\":\"user\",\"content\":" \o JSONStringify(JStr(text))
         \o "}],\"model\":\"gpt-3.5-turbo\"}")

\* summarize(text, maxLength): the params of the chat() call it ends in
summarize(text, maxLength) ==
  analyze(text,
          IF maxLength # 0
            THEN "Summarize the following text in no more than "
                   \o ToString(maxLength) \o " words:"
            ELSE "Summarize the following text:")

\* translate(text, targetLanguage): the params of the chat() call it ends in
translate(text, targetLanguage) ==
  analyze(text, "Translate the following text to " \o targetLanguage \o ":")

\* the method of the client each wrapper method calls
ClientMethod(fn) ==
  CASE fn \in {"chat", "analyze", "summarize", "translate"} -> "chat.completions.create"
    [] fn = "createImage" -> "images.generate"
    [] fn = "transcribe" -> "audio.transcriptions.create"
    [] fn = "createSpeech" -> "audio.speech.create"

OASettled(kind, value, error) == [kind |-> kind, value |-> value, error |-> error]

\* chat() handing on every response
chatSettles_NoCheck(response) == OASettled("return", response, NoError)

\* chat() after the client resolved: the response when it has `choices`,
\* else the error thrown
chatSettles(response) ==
  IF HasChoices(response)
    THEN OASettled("return", response, NoError)
    ELSE OASettled("throw", Undefined, InvalidFormat)

\* createSpeech() after the client resolved: response.arrayBuffer(), the
\* bytes of a Response object as an ArrayBuffer, and a TypeError for a value
\* without that method
createSpeechSettles(response) ==
  IF response.t = "response"
    THEN OASettled("return", [t |-> "arraybuffer", v |-> response.v], NoError)
    ELSE OASettled("throw", Undefined,
                   [type |-> "TypeError",
                    message |-> "response.arrayBuffer is not a function"])

\* analyze() after its chat() call settled: the content of the first choice,
\* or the error chat() threw
analyzeSettles(response) ==
  IF chatSettles(response).kind = "return"
    THEN OASettled("return", ContentOf(response), NoError)
    ELSE chatSettles(response)

\* a method of the wrapper after the client resolved
MethodSettles(fn, response) ==
  CASE fn = "chat" -> chatSettles(response)
    [] fn = "createImage" -> OASettled("return", response, NoError)
    [] fn = "transcribe" -> OASettled("return", response, NoError)
    [] fn = "createSpeech" -> createSpeechSettles(response)
    [] OTHER -> analyzeSettles(response)

NoAnswer == [kind |-> "none"]

\* `p || d` for a property p of the configuration
OrDefault(p, d) == IF p.given /\ p.v # 0 THEN p.v ELSE d

\* this.config of an OpenAIWrapper built from {apiKey, maxRetries,
\* cacheEnabled, cacheDuration, client}: without a baseURL of its own, super()
\* is handed https://api.openai.com/v1
OpenAIConstructor(apiKey, maxRetries, cacheEnabled, cacheDuration) ==
  [Constructor(OrDefault(maxRetries, DefaultRetryAttempts), cacheEnabled,
               OrDefault(cacheDuration, DefaultCacheDuration),
               [apiKey |-> apiKey, bearerToken |-> "",
                basicAuth |-> NoBasicAuth, refreshToken |-> ""])
     EXCEPT !.baseURL = "https://api.openai.com/v1"]

\* An OpenAIWrapper built with a client and used by two callers: the wrapper
\* of the tests ({apiKey, cacheEnabled, client}) and one with maxRetries and
\* cacheDuration given, each with cacheEnabled given or not.
InitOpenAI ==
  /\ PipeIdle({})
  /\ impl = "ts"
  /\ axios = "1.7.5"
  /\ config \in { OpenAIConstructor("test-api-key", o[1], ce, o[2]) :
                   o \in {<<Absent, Absent>>}
                           \cup { <<Given(MaxRetry), Given(d)>> : d \in CacheDurations },
                   ce \in BOOLEAN }
  /\ cache = <<>>
  /\ fin = NoCall
  /\ fout = NoCall
  /\ ws = NoSocket
  /\ oa = [c \in Callers |->
             [pc |-> "idle", fn |-> "", params |-> Undefined, calls |-> <<>>,
              answer |-> NoAnswer, outcome |-> OASettled("none", Undefined, NoError),
              repeat |-> FALSE, previous |-> Undefined]]

\* the call of chat() or createImage() follows a call of the same caller, of
\* the same method with the same params, that returned a response
IsRepeat(c, fn, params) ==
  /\ fn \in {"chat", "createImage"}
  /\ oa[c].pc = "done"
  /\ oa[c].outcome.kind = "return"
  /\ oa[c].fn = fn
  /\ oa[c].params = params

\* A method of the wrapper up to its first await; params are the params the
\* client is to be called with.  chat() and createImage() consult the cache
\* through this.get(cacheKey) when this.cacheEnabled is truthy; otherwise, and
\* in transcribe() and createSpeech(), the client is called.  For chat()
\* and createImage(), repeat and previous record whether the call repeats the
\* one before it, and what that one returned.
OpenAICall(c, fn, params) ==
  /\ oa[c].pc \in {"idle", "done"}
  /\ LET started ==
           [oa[c] EXCEPT !.fn = fn, !.params = params, !.answer = NoAnswer,
                         !.outcome = OASettled("none", Undefined, NoError),
                         !.repeat = IsRepeat(c, fn, params),
                         !.previous = IF IsRepeat(c, fn, params)
                                        THEN oa[c].outcome.value ELSE Undefined]
     IN IF fn \notin {"transcribe", "createSpeech"} /\ Truthy(ThisCacheEnabled(config))
          THEN oa' = [oa EXCEPT ![c] = [started EXCEPT !.pc = "lookup", !.calls = <<>>]]
          ELSE oa' = [oa EXCEPT ![c] =
                        [started EXCEPT !.pc = "awaiting",
                           !.calls = <<[method |-> ClientMethod(fn), params |-> params]>>]]
  /\ UNCHANGED <<pipeVars, fin, fout, ws>>

\* The method does not settle in the turn in which its client call is
\* answered: createSpeech() awaits response.arrayBuffer() of a Response, and
\* analyze(), summarize() and translate() await the promise of chat(), which
\* settles before they resume.
SettlesLater(fn, answer) ==
  \/ fn \in {"analyze", "summarize", "translate"}
  \/ fn = "createSpeech" /\ answer.kind = "resolve" /\ answer.value.t = "response"

\* how the method settles once the client has answered
SettlesWith(fn, answer) ==
  IF answer.kind = "resolve"
    THEN MethodSettles(fn, answer.value)
    ELSE OASettled("throw", Undefined, answer.value)

\* The client has answered the caller's call: chat(), createImage() and
\* transcribe() run to their return or throw (the write to the cache is
\* skipped like the lookup; no catch block, a rejection leaves the method);
\* the other methods take the answer and settle later.
ClientAnswers(c, answer) ==
  /\ oa[c].pc = "awaiting"
  /\ oa' = [oa EXCEPT ![c] =
       IF SettlesLater(oa[c].fn, answer)
         THEN [oa[c] EXCEPT !.pc = "resuming", !.answer = answer]
         ELSE [oa[c] EXCEPT !.pc = "done", !.answer = answer,
                            !.outcome = SettlesWith(oa[c].fn, answer)]]
  /\ UNCHANGED <<pipeVars, fin, fout, ws>>

\* the client resolves
ClientResolves(c, response) ==
  ClientAnswers(c, [kind |-> "resolve", value |-> response])

\* the client rejects
ClientRejects(c, error) ==
  ClientAnswers(c, [kind |-> "reject", value |-> error])

\* createSpeech() resumes with the bytes read, or analyze(), summarize() or
\* translate() resumes after chat(): the method settles
Resumes(c) ==
  /\ oa[c].pc = "resuming"
  /\ oa' = [oa EXCEPT ![c] = [oa[c] EXCEPT !.pc = "done",
                                !.outcome = SettlesWith(oa[c].fn, oa[c].answer)]]
  /\ UNCHANGED <<pipeVars, fin, fout, ws>>

NextOpenAI ==
  \/ \E c \in Callers, params \in ChatParams : OpenAICall(c, "chat", params)
  \/ \E c \in Callers, params \in ImageParams : OpenAICall(c, "createImage", params)
  \/ \E c \in Callers, params \in AudioParams.transcription :
       OpenAICall(c, "transcribe", params)
  \/ \E c \in Callers, params \in AudioParams.speech : OpenAICall(c, "createSpeech", params)
  \/ \E c \in Callers, text \in AnalysisInputs.texts,
        instructions \in AnalysisInputs.instructions :
       OpenAICall(c, "analyze", analyze(text, instructions))
  \/ \E c \in Callers, text \in AnalysisInputs.texts,
        maxLength \in AnalysisInputs.maxLengths :
       OpenAICall(c, "summarize", summarize(text, maxLength))
  \/ \E c \in Callers, text \in AnalysisInputs.texts,
        language \in AnalysisInputs.languages :
       OpenAICall(c, "translate", translate(text, language))
  \/ \E c \in Callers, response \in ClientResponses : ClientResolves(c, response)
  \/ \E c \in Callers, error \in ClientErrors : ClientRejects(c, error)
  \/ \E c \in Callers : Resumes(c)

SpecOpenAI == InitOpenAI /\ [][NextOpenAI]_vars

-----------------------------------------------------------------------------
(* Requests of every kind and a WebSocket connection on one wrapper *)

\* a wrapper with cacheEnabled and retryAttempts = 1, whose user makes REST
\* and GraphQL calls and opens a WebSocket connection
InitMixed ==
  /\ impl \in Impls
  /\ axios \in AxiosReleases
  /\ config \in { Constructor(1, TRUE, cd,
                     [apiKey |-> "", bearerToken |-> "initial-token",
                      basicAuth |-> NoBasicAuth, refreshToken |-> ""]) :
                   cd \in CacheDurations }
  /\ cache = <<>>
  /\ PipeIdle({"c1"})
  /\ fin = [fn |-> "connectWebSocket", url |-> "wss://ws.example.com", onMessage |-> TRUE]
  /\ fout = NoCall
  /\ ws \in { [state |-> "none", release |-> r] : r \in WsReleases }
  /\ oa = NoOpenAI

\* the request() calls made next to the connection are one that can be served
\* from the cache and the GraphQL calls
NextMixed ==
  \/ \E c \in Callers,
        r \in { q \in Requests : q.method = "get" } \cup GraphQLRequests : Call(c, r)
  \/ \E c \in Callers : Send(c)
  \/ \E c \in Callers, body \in SuccessBodies : RespondOK(c, body)
  \/ \E c \in Callers : Return(c)
  \/ \E c \in Callers, status \in ErrStatuses, data \in ErrBodies : RespondFail(c, status, data)
  \/ \E c \in Callers : RespondFail(c, NoResponse, Undefined)
  \/ Tick
  \/ connectWebSocket
  \/ WsOpen
  \/ \E text \in FrameTexts : WsMessage(text)
  \/ WsError
  \/ WsClose

SpecMixed == InitMixed /\ [][NextMixed]_vars

-----------------------------------------------------------------------------
(* Claims *)

Settles(c, kind) == pc[c] = "done" /\ outcome[c].kind = kind

\* C1: with cacheEnabled, a request repeated while cacheDuration has not
\* elapsed since an identical request succeeded returns the cached value at
\* once: no transport call, no retry, no refresh.
C1_RepeatServedFromCache ==
  \A c \in Callers :
    expectHit[c] =>
      /\ Settles(c, "return")
      /\ outcome[c].from = "cache"
      /\ ncalls[c] = 0
      /\ nrefresh[c] = 0
      /\ attempts[c] = 0

\* C2: with cacheEnabled = false every settled request() call has invoked the
\* transport at least once and was not answered from the store, whatever the
\* store holds.
C2_NoCacheAlwaysTransport ==
  \A c \in Callers :
    (~config.cacheEnabled /\ pc[c] = "done") =>
      /\ ncalls[c] >= 1
      /\ outcome[c].from # "cache"

\* C2 witness: caching is off, the store holds a live entry under the key of
\* the request, and the request has settled after calling the transport.
C2_Witness ==
  \E c \in Callers :
    /\ ~config.cacheEnabled
    /\ pc[c] = "done"
    /\ Truthy(CacheGet(cache, getCacheKey(CallConfig(req[c]))))
    /\ ncalls[c] >= 1

\* C3: with no 401-refresh involved, a request never makes more than
\* retryAttempts transport calls; once retryAttempts calls have failed it has
\* thrown, and what it throws is the error the interceptor raised for the
\* last call (in app.ts the transport's error object itself), not an earlier
\* one and not a wrapper.
C3_RetryBudgetAndLastError ==
  \A c \in Callers :
    nrefresh[c] = 0 =>
      /\ ncalls[c] <= config.retryAttempts
      /\ nfail[c] = config.retryAttempts =>
           /\ Settles(c, "throw")
           /\ ncalls[c] = config.retryAttempts
           /\ lastErr[c].seq = config.retryAttempts
           /\ outcome[c].error = handleErrorThrown(impl, lastErr[c])
           /\ impl = "ts" => outcome[c].error = lastErr[c]
      /\ Settles(c, "throw") => nfail[c] = config.retryAttempts

\* C3 witness: a request configured with more than one attempt has thrown the
\* error of its last attempt after exactly retryAttempts transport calls.
C3_Witness ==
  \E c \in Callers :
    /\ Settles(c, "throw")
    /\ nrefresh[c] = 0
    /\ config.retryAttempts >= 2
    /\ ncalls[c] = config.retryAttempts
    /\ outcome[c].error.status = 404

\* C4: a request answered by the transport returns the result of the success
\* that followed its k failures, after exactly k + 1 transport calls, and a
\* request throws only when at least retryAttempts calls have failed: with
\* k < retryAttempts failures no error reaches the caller.
C4_SuccessAfterFailures ==
  \A c \in Callers :
    /\ (Settles(c, "return") /\ outcome[c].from = "transport") =>
         /\ ncalls[c] = nfail[c] + 1
         /\ outcome[c].value = handleResponseReturn(impl, lastBody[c])
         /\ outcome[c].error = NoError
    /\ Settles(c, "throw") => nfail[c] >= config.retryAttempts

\* C4 witness: the transport failed retryAttempts - 1 >= 1 times, then
\* succeeded, and the request returned.
C4_Witness ==
  \E c \in Callers :
    /\ Settles(c, "return")
    /\ outcome[c].from = "transport"
    /\ nfail[c] >= 1
    /\ nfail[c] = config.retryAttempts - 1
    /\ nrefresh[c] = 0

\* C5: within one iteration of the retry loop a 401 leads to exactly one
\* refresh-hook call, whatever the resubmitted request's outcome is (a second
\* 401 included).
C5_OneRefreshPerAttempt ==
  \A c \in Callers : rInAttempt[c] <= 1

\* C6: without a refreshToken a 401 never calls the refresh hook, never
\* changes auth.bearerToken, and the error request() throws for it has a
\* `status` field equal to 401.
C6_No401RefreshWithoutToken ==
  \A c \in Callers :
    config.auth.refreshToken = "" =>
      /\ nrefresh[c] = 0
      /\ pc[c] # "refreshing"
      /\ config.auth.bearerToken \in InitialTokens
      /\ (Settles(c, "throw") /\ lastErr[c].status = 401) =>
           StatusField(axios, outcome[c].error) = 401

\* C7: once the refresh hook has failed, the request has thrown that refresh
\* error: there is no backoff wait and no further transport or refresh call.
C7_RefreshFailureIsFinal ==
  \A c \in Callers :
    refreshFailed[c] =>
      /\ Settles(c, "throw")
      /\ outcome[c].error.type = "RefreshError"

\* C8: a request that throws because its last transport call failed with an
\* HTTP response throws the normalized object {status, message, data} built
\* from that response.
C8_HttpErrorsNormalized ==
  \A c \in Callers :
    (Settles(c, "throw") /\ outcome[c].error.type # "RefreshError"
       /\ HasResponse(lastErr[c])) =>
      /\ StatusField(axios, outcome[c].error) = lastErr[c].status
      /\ DataField(outcome[c].error) = lastErr[c].data
      /\ outcome[c].error = Normalized(lastErr[c])

\* C9: a transport failure without an HTTP response never starts a refresh,
\* and a request that throws after such a last failure throws the identical
\* raw error object of that last transport call.
C9_NetworkErrorRaw ==
  \A c \in Callers :
    (lastErr[c].type = "AxiosError" /\ ~HasResponse(lastErr[c])) =>
      /\ pc[c] # "refreshing"
      /\ Settles(c, "throw") =>
           /\ outcome[c].error = lastErr[c]
           /\ outcome[c].error.seq = ncalls[c]

\* C9 witness: a refresh-configured instance has thrown a network error raised
\* by the second transport call of a request.
C9_Witness ==
  \E c \in Callers :
    /\ Settles(c, "throw")
    /\ config.auth.refreshToken # ""
    /\ ~HasResponse(lastErr[c])
    /\ lastErr[c].type = "AxiosError"
    /\ ncalls[c] = 2
    /\ nrefresh[c] = 0

\* C10: a transport-served request returns the parsed response body itself,
\* and a cache-served request returns the value that was returned to the
\* caller whose response wrote the entry.
C10_ParsedBodyAndSameFromCache ==
  \A c \in Callers :
    Settles(c, "return") =>
      /\ outcome[c].from = "transport" =>
           outcome[c].value = AsData(parseResponse(lastBody[c]))
      /\ (outcome[c].from = "cache"
            /\ getCacheKey(CallConfig(req[c])) \in DOMAIN writer) =>
           outcome[c].value = writer[getCacheKey(CallConfig(req[c]))]

\* C11: a get or post answered by the transport resolves to a response
\* object whose `data` field holds the body the transport returned.
C11_ResolvesToResponseObject ==
  \A c \in Callers :
    (Settles(c, "return") /\ outcome[c].from = "transport") =>
      /\ outcome[c].value.wrap = "response"
      /\ outcome[c].value.body = lastBody[c]

\* C12: two requests with the same method and endpoint whose params and body
\* hold the same entries, inserted in any order, get the same cache key.
C12_KeyIgnoresInsertionOrder ==
  (fout.fn = "getCacheKey"
     /\ Content(fin.paramsA) = Content(fin.paramsB)
     /\ Content(fin.dataA) = Content(fin.dataB)) =>
    fout.a = fout.b

\* C13: getAuthHeaders returns the existing headers with X-API-Key set when
\* apiKey is, Authorization "Basic base64(username:password)" whenever
\* basicAuth is set, "Bearer <bearerToken>" when bearerToken is set and
\* basicAuth is not, every other header as it was, and leaves the caller's
\* object alone.
C13_AuthHeaders ==
  fout.fn = "getAuthHeaders" =>
    LET a == fin.auth
        e == fin.existing
        h == fout.headers
    IN /\ h.xApiKey = (IF a.apiKey # "" THEN a.apiKey ELSE e.xApiKey)
       /\ a.basicAuth.set => h.authorization = "Basic dXNlcjpwYXNz"
       /\ (~a.basicAuth.set /\ a.bearerToken # "") =>
            h.authorization = "Bearer " \o a.bearerToken
       /\ (~a.basicAuth.set /\ a.bearerToken = "") => h.authorization = e.authorization
       /\ h.accept = e.accept
       /\ fout.argument = e

\* C13 witness: apiKey, bearerToken and basicAuth are all set, the caller
\* passed an Authorization header, and the result carries the Basic header.
C13_Witness ==
  /\ fout.fn = "getAuthHeaders"
  /\ fin.auth.apiKey # ""
  /\ fin.auth.bearerToken # ""
  /\ fin.auth.basicAuth.set
  /\ fin.existing.authorization = "Bearer stale"
  /\ fout.headers.authorization = "Basic dXNlcjpwYXNz"
  /\ fout.headers.xApiKey = "key-1"

\* C14: a request() call made without a method uses POST when the options
\* carry a body and GET otherwise, both in its cache key and in its
\* transport calls.
C14_MethodDefault ==
  \A c \in Callers :
    (pc[c] \notin {"off", "idle"} /\ req[c].method = "") =>
      LET m == IF Truthy(req[c].data) THEN "POST" ELSE "GET"
      IN /\ ckey[c] = getCacheKey(CallConfig([req[c] EXCEPT !.method = m]))
         /\ pc[c] = "inflight" => cur[c].method = ToLowerCase(m)

\* C15: queryGraphQL and mutationGraphQL each make one request() call, with
\* method POST, the given endpoint and the body {query: text, variables}
\* (variables {} when left out); nothing of the call tells a query from a
\* mutation.
C15_GraphQLShapesOnePost ==
  \A c \in Callers :
    (fout.fn \in {"queryGraphQL", "mutationGraphQL"} /\ pc[c] # "off") =>
      LET vtext == IF fin.variables = Undefined THEN "{}" ELSE fin.variables.v
          body == "{\"query\":" \o JSONStringify(JStr(fin.text))
                    \o ",\"variables\":" \o vtext \o "}"
      IN /\ fout.requests = 1
         /\ req[c] = [method |-> "POST", url |-> fin.endpoint, params |-> Undefined,
                      data |-> JObj(body), headers |-> NoHeaders]
         /\ pc[c] = "inflight" =>
              /\ cur[c].method = "post"
              /\ cur[c].url = fin.endpoint
              /\ cur[c].data = JStr(body)

\* C15 witness: the POST of a mutationGraphQL call made without variables is
\* in flight with the body {"query": ..., "variables": {}}.
C15_Witness ==
  /\ fout.fn = "mutationGraphQL"
  /\ fin.variables = Undefined
  /\ pc["c1"] = "inflight"
  /\ cur["c1"].url = "/graphql"
  /\ cur["c1"].data = JStr("{\"query\":\"mutation{addX}\",\"variables\":{}}")

\* C16: every message event of a connection opened with an onMessage callback
\* is delivered to the callback once, as parseResponse of the frame: a frame
\* whose text is valid JSON arrives as the parsed value.
C16_FramesDeliveredParsed ==
  (ws.state \in {"open", "closed"} /\ ws.onMessage) =>
    /\ Len(ws.delivered) = Len(ws.events)
    /\ \A i \in 1..Len(ws.events) :
         ws.events[i].text \in JSONTexts =>
           ws.delivered[i] = JSONParse(ws.events[i].text)

\* the client was called once for the caller's invocation, with the caller's
\* params
OneClientCall(c) ==
  oa[c].calls = <<[method |-> ClientMethod(oa[c].fn), params |-> oa[c].params]>>

\* C17 as stated: chat and createImage call the client once with the caller's
\* params and return its response unchanged; a client error reaches the
\* caller unchanged.
C17_ResponseAlwaysReturned ==
  \A c \in Callers :
    /\ oa[c].pc \in {"lookup", "awaiting", "resuming", "done"} => OneClientCall(c)
    /\ (oa[c].pc = "done" /\ oa[c].fn \in {"chat", "createImage"}) =>
         IF oa[c].answer.kind = "resolve"
           THEN oa[c].outcome = OASettled("return", oa[c].answer.value, NoError)
           ELSE oa[c].outcome = OASettled("throw", Undefined, oa[c].answer.value)

\* C17 amended: as stated, except that chat returns the client's response only
\* when it has a `choices` field and otherwise throws the error
\* 'Invalid response format from OpenAI chat completion'.
C17_ResponseReturnedIfChoices ==
  \A c \in Callers :
    /\ oa[c].pc \in {"lookup", "awaiting", "resuming", "done"} => OneClientCall(c)
    /\ (oa[c].pc = "done" /\ oa[c].fn \in {"chat", "createImage"}) =>
         IF oa[c].answer.kind = "reject"
           THEN oa[c].outcome = OASettled("throw", Undefined, oa[c].answer.value)
           ELSE IF oa[c].fn = "chat" /\ ~HasChoices(oa[c].answer.value)
             THEN oa[c].outcome = OASettled("throw", Undefined, InvalidFormat)
             ELSE oa[c].outcome = OASettled("return", oa[c].answer.value, NoError)

\* C17 witness: on a wrapper built with cacheEnabled: true, chat was answered
\* with an object without `choices` and threw after its one client call,
\* while the other caller's createImage has returned the client's response.
C17_Witness ==
  /\ config.cacheEnabled
  /\ oa["c1"].pc = "done"
  /\ oa["c1"].fn = "chat"
  /\ oa["c1"].answer = [kind |-> "resolve", value |-> JObj("{}")]
  /\ oa["c1"].outcome.kind = "throw"
  /\ Len(oa["c1"].calls) = 1
  /\ oa["c2"].pc = "done"
  /\ oa["c2"].fn = "createImage"
  /\ oa["c2"].outcome = OASettled("return", JObj("{\"data\":[]}"), NoError)

\* C18: a request() call makes at most retryAttempts + 1 transport calls
\* before it returns or throws, also when a refreshToken is configured and
\* every attempt, the resubmitted one included, is answered 401.
C18_TransportCallsBounded ==
  \A c \in Callers : ncalls[c] <= config.retryAttempts + 1

\* C19: a 401 answered by refresh-and-retry leaves the attempt counter of
\* request() alone: a 401 on a wrapper with a refreshToken starts the refresh
\* on any attempt, the last permitted one included; the refresh and the
\* resubmission do not count; and the success of a resubmitted request
\* returns with the counter as it was.
C19_RefreshKeepsAttempts ==
  [][\A c \in Callers :
       /\ (pc[c] = "inflight" /\ nfail'[c] > nfail[c] /\ lastErr'[c].status = 401
             /\ config.auth.refreshToken # "") =>
            (pc'[c] = "refreshing" /\ attempts'[c] = attempts[c])
       /\ (pc[c] = "refreshing" /\ pc'[c] = "send") => attempts'[c] = attempts[c]
       /\ (pc[c] \in {"inflight", "resolved"} /\ pc'[c] \in {"resolved", "done"}
             /\ outcome'[c].kind # "throw") =>
            attempts'[c] = attempts[c]]_vars

\* C19 witness: the 401 came on the last permitted attempt
\* (attempts = retryAttempts - 1), was refreshed, and the resubmitted request
\* succeeded: request() has returned with the counter still at that value.
C19_Witness ==
  \E c \in Callers :
    /\ Settles(c, "return")
    /\ outcome[c].from = "transport"
    /\ rInAttempt[c] = 1
    /\ config.retryAttempts = 2
    /\ attempts[c] = config.retryAttempts - 1

\* C20: each attempt runs header injection, transport call and interception
\* in that order, and its headers come from the configuration of that moment:
\* a transport call starts only from the injection step and carries
\* "Bearer <current bearerToken>" (basicAuth not configured); it ends only in
\* the interceptors; a successful refresh stores the new token in the
\* configuration, where every later call takes it from; nothing else changes
\* the token.
C20_HeadersFromCurrentConfig ==
  [][/\ \A c \in Callers :
          /\ (pc'[c] = "inflight" /\ pc[c] # "inflight") =>
               /\ pc[c] = "send"
               /\ ncalls'[c] = ncalls[c] + 1
               /\ (~config.auth.basicAuth.set /\ config.auth.bearerToken # "") =>
                    cur'[c].headers.authorization = "Bearer " \o config.auth.bearerToken
          /\ (pc[c] = "inflight" /\ pc'[c] # "inflight") =>
               /\ pc'[c] \in {"resolved", "done", "refreshing", "wait"}
               /\ ncalls'[c] = ncalls[c]
          /\ (pc[c] = "refreshing" /\ pc'[c] = "send") =>
               /\ config'.auth.bearerToken \in Tokens
               /\ cur'[c].headers.authorization = "Bearer " \o config'.auth.bearerToken
     /\ config'.auth.bearerToken # config.auth.bearerToken =>
          \E c \in Callers : pc[c] = "refreshing" /\ pc'[c] = "send"]_vars

\* C20 witness: after a refresh that stored a new token, a later retry of the
\* same request (a new iteration of the loop) is in flight with that token.
C20_Witness ==
  \E c \in Callers :
    /\ pc[c] = "inflight"
    /\ nrefresh[c] >= 1
    /\ attempts[c] >= 1
    /\ rInAttempt[c] = 0
    /\ config.auth.bearerToken = "rotated-token"
    /\ cur[c].headers.authorization = "Bearer rotated-token"

\* C21: the backoff is linear.  The k-th failed attempt of a request with
\* k < retryAttempts starts a wait of k * 1000 ms, the next transport call
\* starts only when that time has passed, and the retryAttempts-th failure
\* throws at once, without a wait.
C21_LinearBackoff ==
  [][\A c \in Callers :
       /\ (pc[c] # "wait" /\ pc'[c] = "wait") =>
            /\ attempts'[c] = attempts[c] + 1
            /\ attempts'[c] < config.retryAttempts
            /\ wleft'[c] = 1000 * attempts'[c]
       /\ (pc[c] = "wait" /\ pc'[c] = "wait") =>
            wleft'[c] \in {wleft[c], IF wleft[c] > TickMs THEN wleft[c] - TickMs ELSE 0}
       /\ (pc[c] = "wait" /\ pc'[c] # "wait") => wleft[c] = 0
       /\ (attempts'[c] = attempts[c] + 1 /\ attempts'[c] = config.retryAttempts) =>
            (pc'[c] = "done" /\ outcome'[c].kind = "throw")]_vars

\* C21 witness: the second failure of a request with retryAttempts = 3 has
\* started a wait of 2000 ms.
C21_Witness ==
  \E c \in Callers :
    /\ pc[c] = "wait"
    /\ config.retryAttempts = 3
    /\ attempts[c] = 2
    /\ wleft[c] = 2000

\* C22: the cache is written by the success path only.  Whenever the store
\* changes, either a successful response was intercepted on a wrapper with
\* cacheEnabled and exactly the entry of its key was set to the parsed body
\* with TTL cacheDuration, or time passed and only expiry took place; so a
\* failure, a wait, a refresh or a cache hit leaves the store alone, and so
\* does every operation with cacheEnabled = false.
C22_OnlySuccessWritesCache ==
  [][cache' # cache =>
       \/ \E c \in Callers :
            /\ pc[c] = "inflight"
            /\ pc'[c] = "resolved"
            /\ config.cacheEnabled
            /\ LET key == getCacheKey(cur[c])
               IN /\ DOMAIN cache' = DOMAIN cache \cup {key}
                  /\ cache'[key] = [value |-> parseResponse(lastBody'[c]),
                                    left |-> config.cacheDuration]
                  /\ \A k \in DOMAIN cache \ {key} : cache'[k] = cache[k]
       \/ /\ pc' = pc
          /\ DOMAIN cache' \subseteq DOMAIN cache
          /\ \A k \in DOMAIN cache' :
               cache'[k] = [cache[k] EXCEPT !.left = @ - TickMs]]_vars

\* C22 witness: an entry written by a success of this wrapper is in the store
\* while a later request has failed and waits for its retry.
C22_Witness ==
  \E c \in Callers :
    /\ pc[c] = "wait"
    /\ nfail[c] >= 1
    /\ config.cacheEnabled
    /\ "post-/posts-{}-\"{\\\"title\\\":\\\"t\\\"}\"" \in DOMAIN writer \cap DOMAIN cache

\* C23: this.config changes only when a refresh-hook call returns, and then
\* only in auth.bearerToken, which becomes the token the hook returned (the
\* one written to the resubmitted request); baseURL, timeout, retryAttempts,
\* cacheEnabled, cacheDuration, apiKey, basicAuth and refreshToken never change.
C23_ConfigImmutableButToken ==
  [][config' # config =>
       \E c \in Callers, token \in Tokens :
         /\ pc[c] = "refreshing"
         /\ pc'[c] = "send"
         /\ cur'[c].headers.authorization = "Bearer " \o token
         /\ config' = [config EXCEPT !.auth.bearerToken = token]]_vars

\* C23 witness: a request returned after two refreshes; bearerToken is the
\* token of the second one and the rest of the configuration is as constructed.
C23_Witness ==
  \E c \in Callers :
    /\ Settles(c, "return")
    /\ nrefresh[c] = 2
    /\ config.auth.bearerToken = "rotated-token"
    /\ config.auth.refreshToken = "refresh-token"
    /\ config.timeout = 30000
    /\ config.cacheEnabled

\* C24: a request is never answered with the cached response of a different
\* request: a value served from the cache is never the response another
\* wrapper instance (another baseURL, other credentials) has stored.
C24_NoForeignAnswer ==
  \A c \in Callers :
    (Settles(c, "return") /\ outcome[c].from = "cache") =>
      outcome[c].value.body # ForeignValue

\* C25: identical requests made concurrently on a wrapper with cacheEnabled.
\* A call that finds no entry under its key goes to the transport, also while
\* the other caller's identical request is in progress; every intercepted
\* success writes its own parsed body under the key, so the entry is that of
\* the response intercepted last; and each caller, when its request() call
\* resumes, gets the result of its own transport call, the store and the
\* other caller's result staying as they are.
C25_LastWriterWins ==
  [][\A c \in Callers :
       /\ (pc[c] \in {"idle", "done"} /\ ncalls'[c] = 0 /\ ckey'[c] # ckey[c]
             /\ ckey'[c] \notin DOMAIN cache) =>
            pc'[c] = "send"
       /\ (pc[c] = "inflight" /\ pc'[c] = "resolved") =>
            /\ ncalls[c] >= 1
            /\ cache'[getCacheKey(cur[c])].value = parseResponse(lastBody'[c])
            /\ cache'[getCacheKey(cur[c])].left = config.cacheDuration
            /\ outcome' = outcome
       /\ (pc[c] = "resolved" /\ pc'[c] # "resolved") =>
            /\ Settles(c, "return")'
            /\ outcome'[c].from = "transport"
            /\ outcome'[c].value.body \in {lastBody[c], parseResponse(lastBody[c])}
            /\ cache' = cache
            /\ \A d \in Callers \ {c} : outcome'[d] = outcome[d]]_vars

\* C25 witness: both callers missed the cold cache, both went to the
\* transport once and got different bodies; the entry holds the body of c2,
\* c1 holds its own.
C25_Witness ==
  /\ Settles("c1", "return") /\ Settles("c2", "return")
  /\ outcome["c1"].from = "transport" /\ outcome["c2"].from = "transport"
  /\ ncalls["c1"] = 1 /\ ncalls["c2"] = 1
  /\ ckey["c1"] = ckey["c2"]
  /\ lastBody["c1"] = JObj("{\"id\":1}")
  /\ lastBody["c2"] = JStr("{\"a\":1}")
  /\ outcome["c1"].value.body = JObj("{\"id\":1}")
  /\ "get-/posts/1-{}-{}" \in DOMAIN cache
  /\ cache["get-/posts/1-{}-{}"].value = JObj("{\"a\":1}")

\* C26: the refresh is not single-flight.  A 401 on a wrapper with a
\* refreshToken starts a refresh-hook call of its own, whether or not another
\* caller's refresh is in progress, and every refresh that returns sets
\* auth.bearerToken to the token it returned, whatever an earlier refresh had
\* stored: the token of the refresh completed last stays.
C26_RefreshNotSingleFlight ==
  [][\A c \in Callers :
       /\ (pc[c] = "inflight" /\ nfail'[c] > nfail[c] /\ lastErr'[c].status = 401) =>
            /\ pc'[c] = "refreshing"
            /\ nrefresh'[c] = nrefresh[c] + 1
       /\ (pc[c] = "refreshing" /\ pc'[c] = "send") =>
            /\ \E token \in Tokens :
                 /\ cur'[c].headers.authorization = "Bearer " \o token
                 /\ config'.auth.bearerToken = token
            /\ \A d \in Callers \ {c} : pc'[d] = pc[d]]_vars

\* C26 witness: the refresh-hook calls of both callers are in progress at once.
C26_Witness ==
  /\ pc["c1"] = "refreshing"
  /\ pc["c2"] = "refreshing"
  /\ nrefresh["c1"] = 1
  /\ nrefresh["c2"] = 1

\* C27 as stated: WebSocket traffic is decoupled from the pipeline.  A step of
\* the connection (connectWebSocket, open, message, error, close) leaves the
\* cache, the configuration and every request in progress as they are: no
\* transport call, no refresh.  An error event only counts as an onError call:
\* the connection stays in its state and nothing is delivered.  A close event
\* only closes.  A closed connection never changes again and the connection
\* is never replaced by another one.
C27_WebSocketDecoupled ==
  [][ws' # ws =>
       /\ pipeVars' = pipeVars
       /\ ws.state # "closed"
       /\ ws.state # "none" =>
            /\ ws'.url = ws.url
            /\ ws'.errors # ws.errors => ws' = [ws EXCEPT !.errors = @ + 1]
            /\ ws'.state = "closed" => ws' = [ws EXCEPT !.state = "closed"]]_vars

\* C27 amended: WebSocket traffic is decoupled from the pipeline.  A step of
\* the connection leaves the cache, the configuration and every request in
\* progress as they are.  An error event counts as one onError call and finds
\* the connection closing, which is the transport's doing: nothing is
\* delivered with it, the connection is not opened again, and the only step
\* of a closing connection is its close event.  A close event only closes.  A
\* closed connection never changes again and the connection is never replaced
\* by another one.
C27_WebSocketDecoupledErrorCloses ==
  [][ws' # ws =>
       /\ pipeVars' = pipeVars
       /\ ws.state # "closed"
       /\ ws.state # "none" =>
            /\ ws'.url = ws.url
            /\ ws'.errors # ws.errors =>
                 ws' = [ws EXCEPT !.errors = @ + 1, !.state = "closing"]
            /\ ws.state = "closing" => ws' = [ws EXCEPT !.state = "closed"]
            /\ ws'.state = "closed" => ws' = [ws EXCEPT !.state = "closed"]]_vars

\* C27 witness: an error event has reached a connection that had delivered a
\* message, while a request of the same wrapper is in flight and the cache
\* holds an entry.
C27_Witness ==
  /\ ws.state = "closing"
  /\ ws.errors = 1
  /\ Len(ws.delivered) >= 1
  /\ pc["c1"] = "inflight"
  /\ DOMAIN cache # {}

\* C28: for every retryAttempts value the constructor stores, a request()
\* call not served from the cache makes at least one transport call before it
\* settles, and never fails with 'Max retry attempts reached'.
C28_MaxRetryUnreachable ==
  \A c \in Callers :
    (pc[c] = "done" /\ outcome[c].from # "cache") =>
      /\ ncalls[c] >= 1
      /\ outcome[c].error # MaxRetryError

\* C29: on an OpenAIWrapper built with cacheEnabled = true, a chat or
\* createImage call that repeats the params of the successful call before it
\* does not call the client and returns the response of that call.
C29_RepeatServedWithoutClient ==
  \A c \in Callers :
    (config.cacheEnabled /\ oa[c].fn \in {"chat", "createImage"}
       /\ oa[c].pc \in {"lookup", "awaiting", "done"} /\ oa[c].repeat) =>
      /\ oa[c].calls = <<>>
      /\ oa[c].pc = "done" => oa[c].outcome = OASettled("return", oa[c].previous, NoError)

====
